---- MODULE Spec2Model ----
(***************************************************************************)
(* bin/process_polis_data.py: per-group vote tallies merged onto the       *)
(* comments table.  One action per statement group of the script; the      *)
(* data frames are the variables.                                          *)
(***************************************************************************)
EXTENDS Integers, Sequences, FiniteSets, TLC

VARIABLES votes_file, comments_file, pc, votes, comments, group_ids,
          comment_ids, melted_votes, result, pivoted, for_merge,
          output, exit_code

vars == <<votes_file, comments_file, pc, votes, comments, group_ids,
          comment_ids, melted_votes, result, pivoted, for_merge,
          output, exit_code>>

(* ------------------------------ bounds --------------------------------- *)
MaxCid == 1
ScenarioCid == 101
MaxGroup == 1
MaxVoters == 2
MaxVotes == 3
MaxComments == 2
StaleTotal == 7

CommentIdDomain == (0..MaxCid) \cup {ScenarioCid}
GroupDomain == 0..MaxGroup

(* ------------------------------ values --------------------------------- *)
\* A float cell: NaN or a number.
NaN == <<>>
Num(x) == <<x>>
IsNum(o) == o # NaN
Add(a, b) == IF a = NaN \/ b = NaN THEN NaN ELSE Num(a[1] + b[1])

\* A cell of an id column as read from the CSV text.
RawNull == [kind |-> "null", n |-> 0]
RawText == [kind |-> "text", n |-> 0]
RawInt(n) == [kind |-> "int", n |-> n]

\* Column names of the votes table: a digit string (its number) or not.
NumericCol(n) == [numeric |-> TRUE, n |-> n]
MetaCol == [numeric |-> FALSE, n |-> 0]

Range(s) == {s[i] : i \in DOMAIN s}

Min(S) == CHOOSE x \in S : \A y \in S : x <= y

RECURSIVE SortedSeq(_)
SortedSeq(S) == IF S = {} THEN <<>> ELSE <<Min(S)>> \o SortedSeq(S \ {Min(S)})

(* ------------------------------ inputs --------------------------------- *)
VoteValues == {NaN, Num(-1), Num(0), Num(1)}

Cast(cells) == Cardinality({c \in DOMAIN cells : cells[c] # NaN})

VoteRows(gids, cids) ==
    {r \in [gid : gids, cells : [cids -> VoteValues]] : Cast(r.cells) <= MaxVotes}

RECURSIVE TotalCast(_)
TotalCast(rows) ==
    IF rows = <<>> THEN 0 ELSE Cast(Head(rows).cells) + TotalCast(Tail(rows))

VoteColumns(cids) == <<MetaCol>> \o [i \in 1..Cardinality(cids) |-> NumericCol(SortedSeq(cids)[i])]

OkVotesFile(cids, rows) == [status |-> "ok", columns |-> VoteColumns(cids), rows |-> rows]

BadFile(status) == [status |-> status, columns |-> <<>>, rows |-> <<>>]

BadStatuses == {"missing", "empty", "unparseable"}

CommentRow(raw, i, stale) ==
    [cid |-> raw, comment_body |-> i, agrees |-> Num(stale),
     disagrees |-> Num(stale), passes |-> Num(stale)]

CommentTables(raws, n, stale) ==
    UNION {{[i \in 1..k |-> CommentRow(ids[i], i, stale)] : ids \in [1..k -> raws]} : k \in 0..n}

OkCommentsFile(rows) == [status |-> "ok", columns |-> <<>>, rows |-> rows]

\* The comments table holding every comment id of the domain once.
FullComments(stale) ==
    [i \in 1..Cardinality(CommentIdDomain) |->
        CommentRow(RawInt(SortedSeq(CommentIdDomain)[i]), i, stale)]

GroupCells == {RawNull} \cup {RawInt(g) : g \in GroupDomain}

CommentFiles == {OkCommentsFile(FullComments(StaleTotal))}

(* --------------------------- lines 26-37 ------------------------------- *)
\* pd.read_csv raises FileNotFoundError, EmptyDataError or ParserError.
ReadCsvFails(file) == file.status # "ok"

Stop ==
    /\ pc' = "failed"
    /\ exit_code' = Num(1)

ReadInputs ==
    /\ pc = "read_csv"
    /\ IF ReadCsvFails(votes_file) \/ ReadCsvFails(comments_file)
       THEN Stop /\ UNCHANGED <<votes, comments>>
       ELSE /\ votes' = [columns |-> votes_file.columns, rows |-> votes_file.rows]
            /\ comments' = comments_file.rows
            /\ pc' = "cast_comment_ids"
            /\ UNCHANGED exit_code
    /\ UNCHANGED <<votes_file, comments_file, group_ids, comment_ids,
                   melted_votes, result, pivoted, for_merge, output>>

(* ----------------------------- line 42 -------------------------------- *)
\* Series.astype(int): a blank or non-numeric cell raises ValueError.
\* A cast that lets every cell through (errors='ignore').
AsTypeIntNeverFails(raw) == FALSE

AsTypeIntFails(raw) == raw.kind # "int"
AsTypeInt(raw) == raw.n

CommentIdCastFails(rows) == \E i \in DOMAIN rows : AsTypeIntFails(rows[i].cid)

CastCommentIdRows(rows) == [i \in DOMAIN rows |-> [rows[i] EXCEPT !.cid = AsTypeInt(@)]]

CastCommentIds ==
    /\ pc = "cast_comment_ids"
    /\ IF CommentIdCastFails(comments)
       THEN Stop /\ UNCHANGED comments
       ELSE /\ comments' = CastCommentIdRows(comments)
            /\ pc' = "filter_votes"
            /\ UNCHANGED exit_code
    /\ UNCHANGED <<votes_file, comments_file, votes, group_ids, comment_ids,
                   melted_votes, result, pivoted, for_merge, output>>

(* --------------------------- lines 45-48 ------------------------------- *)
GroupIdNotNa(r) == r.gid.kind # "null"

\* fillna(0) in place of the notna filter: a null group-id counts as group 0.
FillNaRows(rows) ==
    [i \in DOMAIN rows |-> IF GroupIdNotNa(rows[i]) THEN rows[i] ELSE [rows[i] EXCEPT !.gid = RawInt(0)]]

NotNaRows(rows) == SelectSeq(rows, GroupIdNotNa)

GroupIdCastFails(rows) == \E i \in DOMAIN rows : AsTypeIntFails(rows[i].gid)

RECURSIVE Unique(_)
Unique(s) ==
    IF s = <<>> THEN <<>>
    ELSE LET init == SubSeq(s, 1, Len(s) - 1)
             last == s[Len(s)]
         IN IF last \in Range(init) THEN Unique(init) ELSE Append(Unique(init), last)

CastGroupIds(rows) == [i \in DOMAIN rows |-> [rows[i] EXCEPT !.gid = AsTypeInt(@)]]

GroupIdsOf(rows) == Unique([i \in DOMAIN rows |-> rows[i].gid])

FilterVotes ==
    /\ pc = "filter_votes"
    /\ IF GroupIdCastFails(NotNaRows(votes.rows))
       THEN Stop /\ UNCHANGED <<votes, group_ids>>
       ELSE /\ votes' = [votes EXCEPT !.rows = CastGroupIds(NotNaRows(@))]
            /\ group_ids' = GroupIdsOf(CastGroupIds(NotNaRows(votes.rows)))
            /\ pc' = "find_comment_ids"
            /\ UNCHANGED exit_code
    /\ UNCHANGED <<votes_file, comments_file, comments, comment_ids,
                   melted_votes, result, pivoted, for_merge, output>>

(* --------------------------- lines 50-53 ------------------------------- *)
\* re.match(r'^\d+$', col)
IsNumericName(col) == col.numeric

NumericColumns(columns) == SelectSeq(columns, IsNumericName)

FindCommentIds ==
    /\ pc = "find_comment_ids"
    /\ comment_ids' = NumericColumns(votes.columns)
    /\ pc' = "melt"
    /\ UNCHANGED <<votes_file, comments_file, votes, comments, group_ids,
                   melted_votes, result, pivoted, for_merge, output, exit_code>>

(* --------------------------- lines 56-59 ------------------------------- *)
\* melt is column-major: all rows of the first value column, then the next.
\* The comment-id column holds the column names, cast to int at line 58.
Melt(rows, cols) ==
    [k \in 1..(Len(cols) * Len(rows)) |->
        LET col == cols[((k - 1) \div Len(rows)) + 1]
            row == rows[((k - 1) % Len(rows)) + 1]
        IN [gid |-> row.gid, cid |-> col.n, value |-> row.cells[col.n]]]

MeltVotes ==
    /\ pc = "melt"
    /\ melted_votes' = Melt(votes.rows, comment_ids)
    /\ pc' = "count"
    /\ UNCHANGED <<votes_file, comments_file, votes, comments, group_ids,
                   comment_ids, result, pivoted, for_merge, output, exit_code>>

(* --------------------------- lines 60-69 ------------------------------- *)
\* groupby(...)['value'].value_counts(): NaN values are dropped, so the keys
\* are the (comment-id, group-id, value) triples that occur.
CountKeys(melted) ==
    {<<melted[i].cid, melted[i].gid, melted[i].value[1]>> :
        i \in {j \in DOMAIN melted : melted[j].value # NaN}}

ValueCounts(melted) ==
    [key \in CountKeys(melted) |->
        Cardinality({i \in DOMAIN melted :
            /\ melted[i].value # NaN
            /\ <<melted[i].cid, melted[i].gid, melted[i].value[1]>> = key})]

\* rename(columns={-1: 'disagree-count', 0: 'pass-count', 1: 'agree-count'})
RenameColumn(v) ==
    CASE v = -1 -> "disagree-count"
      [] v = 0 -> "pass-count"
      [] v = 1 -> "agree-count"
      [] OTHER -> "other"

\* unstack(fill_value=0).reset_index(): one row per (comment-id, group-id)
\* that occurs, one column per value that occurs anywhere in the frame.
Unstack(vc) ==
    LET values == {key[3] : key \in DOMAIN vc}
        pairs == {<<key[1], key[2]>> : key \in DOMAIN vc}
    IN [columns |-> values,
        rows |-> {[cid |-> p[1], gid |-> p[2],
                   counts |-> [v \in values |->
                       IF <<p[1], p[2], v>> \in DOMAIN vc
                       THEN vc[<<p[1], p[2], v>>] ELSE 0]] : p \in pairs}]

Rename(frame) ==
    LET names == {RenameColumn(v) : v \in frame.columns}
    IN [columns |-> names,
        rows |-> {[cid |-> r.cid, gid |-> r.gid,
                   counts |-> [k \in names |->
                       r.counts[CHOOSE v \in frame.columns : RenameColumn(v) = k]]]
                  : r \in frame.rows}]

CountVotes ==
    /\ pc = "count"
    /\ result' = Rename(Unstack(ValueCounts(melted_votes)))
    /\ pc' = "pivot"
    /\ UNCHANGED <<votes_file, comments_file, votes, comments, group_ids,
                   comment_ids, melted_votes, pivoted, for_merge, output, exit_code>>

(* ----------------------------- line 72 -------------------------------- *)
\* pivot(index="comment-id", columns='group-id'): a (count column, group-id)
\* column for every pair that occurs; a (comment-id, group-id) that has no
\* row in result is NaN.
Pivot(frame) ==
    LET cids == {r.cid : r \in frame.rows}
        gids == {r.gid : r \in frame.rows}
    IN [index |-> SortedSeq(cids),
        kinds |-> frame.columns,
        groups |-> gids,
        cell |-> [key \in frame.columns \X gids \X cids |->
                    IF \E r \in frame.rows : r.cid = key[3] /\ r.gid = key[2]
                    THEN Num((CHOOSE r \in frame.rows :
                                r.cid = key[3] /\ r.gid = key[2]).counts[key[1]])
                    ELSE NaN]]

PivotGroups ==
    /\ pc = "pivot"
    /\ pivoted' = Pivot(result)
    /\ pc' = "for_merge"
    /\ UNCHANGED <<votes_file, comments_file, votes, comments, group_ids,
                   comment_ids, melted_votes, result, for_merge, output, exit_code>>

(* --------------------------- lines 74-78 ------------------------------- *)
Kinds == <<"disagree-count", "pass-count", "agree-count">>

\* The column "group-" + str(group_id) + "-" + count_col, as its two parts.
GroupColumn(g, k) == <<g, k>>

GroupColumns(gids) == {GroupColumn(g, k) : g \in Range(gids), k \in Range(Kinds)}

\* pivoted['disagree-count'][0.0] and pivoted[count_col][group_id] raise
\* KeyError on a label that is not among the pivoted columns.
ForMergeFails(p, gids) ==
    \/ "disagree-count" \notin p.kinds
    \/ 0 \notin p.groups
    \/ \E g \in Range(gids) : \E k \in Range(Kinds) : k \notin p.kinds \/ g \notin p.groups

\* Assigning a Series to a frame column reindexes the Series by the frame's
\* index: the row at position label gets the Series entry labelled label.
Reindexed(p, k, g, label) ==
    IF label \in Range(p.index) THEN p.cell[<<k, g, label>>] ELSE NaN

\* for_merge has the default RangeIndex 0..n-1; the Series are indexed by
\* comment-id.
ForMerge(p, gids) ==
    [i \in 1..Len(p.index) |->
        [cid |-> p.index[i],
         counts |-> [col \in GroupColumns(gids) |-> Reindexed(p, col[2], col[1], i - 1)]]]

BuildForMerge ==
    /\ pc = "for_merge"
    /\ IF ForMergeFails(pivoted, group_ids)
       THEN Stop /\ UNCHANGED for_merge
       ELSE /\ for_merge' = ForMerge(pivoted, group_ids)
            /\ pc' = "zero_totals"
            /\ UNCHANGED exit_code
    /\ UNCHANGED <<votes_file, comments_file, votes, comments, group_ids,
                   comment_ids, melted_votes, result, pivoted, output>>

(* --------------------------- lines 80-83 ------------------------------- *)
Zeroed(rows) ==
    [i \in DOMAIN rows |->
        [rows[i] EXCEPT !.agrees = Num(0), !.disagrees = Num(0), !.passes = Num(0)]]

ZeroTotals ==
    /\ pc = "zero_totals"
    /\ comments' = Zeroed(comments)
    /\ pc' = "merge"
    /\ UNCHANGED <<votes_file, comments_file, votes, group_ids, comment_ids,
                   melted_votes, result, pivoted, for_merge, output, exit_code>>

(* --------------------------- lines 85-86 ------------------------------- *)
Joined(c, f) ==
    [cid |-> c.cid, comment_body |-> c.comment_body, agrees |-> c.agrees,
     disagrees |-> c.disagrees, passes |-> c.passes, counts |-> f.counts]

MatchKey(right, cid) == SelectSeq(right, LAMBDA f : f.cid = cid)

\* how='left': a left row without a match is kept, its counts NaN.
RECURSIVE MergeLeft(_, _)
MergeLeft(left, right) ==
    IF left = <<>> THEN <<>>
    ELSE LET m == MatchKey(right, Head(left).cid)
             unmatched == [counts |-> [col \in UNION {DOMAIN right[j].counts : j \in DOMAIN right} |-> NaN]]
         IN (IF m = <<>> THEN <<Joined(Head(left), unmatched)>>
             ELSE [j \in DOMAIN m |-> Joined(Head(left), m[j])])
            \o MergeLeft(Tail(left), right)

\* DataFrame.merge(on='comment-id'), how='inner': the rows of the left frame
\* in order, each paired with the right rows of the same key.
RECURSIVE Merge(_, _)
Merge(left, right) ==
    IF left = <<>> THEN <<>>
    ELSE LET m == MatchKey(right, Head(left).cid)
         IN [j \in DOMAIN m |-> Joined(Head(left), m[j])] \o Merge(Tail(left), right)

MergeTallies ==
    /\ pc = "merge"
    /\ comments' = Merge(comments, for_merge)
    /\ pc' = "add_totals"
    /\ UNCHANGED <<votes_file, comments_file, votes, group_ids, comment_ids,
                   melted_votes, result, pivoted, for_merge, output, exit_code>>

(* --------------------------- lines 88-92 ------------------------------- *)
AddGroup(row, g) ==
    [row EXCEPT !.disagrees = Add(@, row.counts[GroupColumn(g, "disagree-count")]),
                !.agrees = Add(@, row.counts[GroupColumn(g, "agree-count")]),
                !.passes = Add(@, row.counts[GroupColumn(g, "pass-count")])]

RECURSIVE AddGroups(_, _)
AddGroups(rows, gids) ==
    IF gids = <<>> THEN rows
    ELSE AddGroups([i \in DOMAIN rows |-> AddGroup(rows[i], Head(gids))], Tail(gids))

AddTotals ==
    /\ pc = "add_totals"
    /\ comments' = AddGroups(comments, group_ids)
    /\ pc' = "to_csv"
    /\ UNCHANGED <<votes_file, comments_file, votes, group_ids, comment_ids,
                   melted_votes, result, pivoted, for_merge, output, exit_code>>

(* --------------------------- lines 94-96 ------------------------------- *)
\* rename(columns={'comment-body': 'comment_text'})
RenameBody(rows) ==
    [i \in DOMAIN rows |->
        [cid |-> rows[i].cid, comment_text |-> rows[i].comment_body,
         agrees |-> rows[i].agrees, disagrees |-> rows[i].disagrees,
         passes |-> rows[i].passes, counts |-> rows[i].counts]]

WriteOutput ==
    /\ pc = "to_csv"
    /\ comments' = RenameBody(comments)
    /\ output' = Num(RenameBody(comments))
    /\ pc' = "done"
    /\ exit_code' = Num(0)
    /\ UNCHANGED <<votes_file, comments_file, votes, group_ids, comment_ids,
                   melted_votes, result, pivoted, for_merge>>

(* ------------------------- the whole script --------------------------- *)
Failure == [exit_code |-> Num(1), output |-> NaN]

\* The exit status and the file written by a run on the two input files.
Outcome(vf, cf) ==
    IF ReadCsvFails(vf) \/ ReadCsvFails(cf) THEN Failure
    ELSE IF CommentIdCastFails(cf.rows) THEN Failure
    ELSE IF GroupIdCastFails(NotNaRows(vf.rows)) THEN Failure
    ELSE LET rows == CastGroupIds(NotNaRows(vf.rows))
             gids == GroupIdsOf(rows)
             p == Pivot(Rename(Unstack(ValueCounts(Melt(rows, NumericColumns(vf.columns))))))
         IN IF ForMergeFails(p, gids) THEN Failure
            ELSE [exit_code |-> Num(0),
                  output |-> Num(RenameBody(AddGroups(
                      Merge(Zeroed(CastCommentIdRows(cf.rows)), ForMerge(p, gids)), gids)))]

(* --------------------------- specifications ---------------------------- *)
Unread ==
    /\ pc = "read_csv"
    /\ votes = [columns |-> <<>>, rows |-> <<>>]
    /\ comments = <<>>
    /\ group_ids = <<>>
    /\ comment_ids = <<>>
    /\ melted_votes = <<>>
    /\ result = <<>>
    /\ pivoted = <<>>
    /\ for_merge = <<>>
    /\ output = NaN
    /\ exit_code = NaN

\* Valid inputs: any votes table within the bounds, a comments table that
\* holds every comment id once, with stale totals.
Init ==
    /\ \E cids \in SUBSET CommentIdDomain : \E k \in 0..MaxVoters :
         \E rows \in [1..k -> VoteRows(GroupCells, cids)] :
            /\ TotalCast(rows) <= MaxVotes
            /\ votes_file = OkVotesFile(cids, rows)
    /\ comments_file \in CommentFiles
    /\ Unread

\* The place of a comment id among the columns.
Position(cids, c) == CHOOSE i \in 1..Cardinality(cids) : SortedSeq(cids)[i] = c

\* A voter who went through the first p comment columns, the vote kinds in
\* rotation (sign 1) or the opposite votes (sign -1).
PrefixBallot(cids, p, sign) ==
    [c \in cids |->
        IF Position(cids, c) <= p THEN Num(sign * ((Position(cids, c) % 3) - 1)) ELSE NaN]

PrefixBallots(cids) ==
    {PrefixBallot(cids, p, sign) : p \in 0..Cardinality(cids), sign \in {-1, 1}}

Ballot(cids) == PrefixBallot(cids, Cardinality(cids), 1)

\* Valid inputs with ungrouped voters: every voter, of a group or of none,
\* casts a prefix ballot.
InitUngrouped ==
    /\ \E k \in 0..MaxVoters :
         \E rows \in [1..k -> [gid : GroupCells, cells : PrefixBallots(CommentIdDomain)]] :
            votes_file = OkVotesFile(CommentIdDomain, rows)
    /\ comments_file \in CommentFiles
    /\ Unread

\* Three voters of one group who cast a disagree, a pass and an agree on
\* each comment of cids and on no other.
Census(g, cids) ==
    [i \in 1..3 |->
        [gid |-> RawInt(g),
         cells |-> [c \in CommentIdDomain |-> IF c \in cids THEN Num(i - 2) ELSE NaN]]]

\* Valid inputs for the join: votes on any set of the comment columns, any
\* comments table within the bounds (duplicate ids included).
InitJoin ==
    /\ \E g \in GroupDomain : \E cids \in SUBSET CommentIdDomain :
         votes_file = OkVotesFile(CommentIdDomain, Census(g, cids))
    /\ \E stale \in {0, StaleTotal} :
         \E rows \in CommentTables({RawInt(c) : c \in CommentIdDomain}, MaxComments, stale) :
            comments_file = OkCommentsFile(rows)
    /\ Unread

\* Inputs that may be missing, empty, unparseable or hold ids that are no
\* integers.
InitErr ==
    /\ \/ \E st \in BadStatuses : votes_file = BadFile(st)
       \/ \E k \in 0..MaxVoters : \E gs \in [1..k -> GroupCells \cup {RawText}] :
            votes_file = OkVotesFile(CommentIdDomain,
                [i \in 1..k |-> [gid |-> gs[i], cells |-> Ballot(CommentIdDomain)]])
    /\ \/ \E st \in BadStatuses : comments_file = BadFile(st)
       \/ \E rows \in CommentTables({RawInt(c) : c \in CommentIdDomain} \cup {RawText, RawNull},
                                    MaxComments, StaleTotal) :
            comments_file = OkCommentsFile(rows)
    /\ Unread

Next ==
    \/ ReadInputs
    \/ CastCommentIds
    \/ FilterVotes
    \/ FindCommentIds
    \/ MeltVotes
    \/ CountVotes
    \/ PivotGroups
    \/ BuildForMerge
    \/ ZeroTotals
    \/ MergeTallies
    \/ AddTotals
    \/ WriteOutput

Spec == Init /\ [][Next]_vars

SpecUngrouped == InitUngrouped /\ [][Next]_vars

SpecJoin == InitJoin /\ [][Next]_vars

SpecErr == InitErr /\ [][Next]_vars

(* ------------------------------ claims --------------------------------- *)
Terminal == pc \in {"done", "failed"}

AfterCount == pc \in {"pivot", "for_merge", "zero_totals", "merge", "add_totals", "to_csv", "done"}

AfterForMerge == pc \in {"zero_totals", "merge", "add_totals", "to_csv", "done"}

OutputRows == output[1]

\* The rows of the votes file of group g that hold a vote in column c.
GroupedVoters(g, c) ==
    {i \in DOMAIN votes_file.rows :
        /\ votes_file.rows[i].gid = RawInt(g)
        /\ c \in DOMAIN votes_file.rows[i].cells
        /\ votes_file.rows[i].cells[c] # NaN}

VotersOfKind(g, c, v) ==
    {i \in GroupedVoters(g, c) : votes_file.rows[i].cells[c] = Num(v)}

AllCountsDefined(r) == \A col \in DOMAIN r.counts : IsNum(r.counts[col])

RECURSIVE SumCounts(_, _, _)
SumCounts(r, gids, k) ==
    IF gids = <<>> THEN 0
    ELSE r.counts[GroupColumn(Head(gids), k)][1] + SumCounts(r, Tail(gids), k)

\* C1: in every output row agrees, disagrees and passes are integers equal
\* to the sums of the row's per-group agree, disagree and pass counts.
C1_TotalsAreGroupSums ==
    pc = "done" =>
        \A i \in DOMAIN OutputRows :
            LET r == OutputRows[i]
            IN /\ AllCountsDefined(r)
               /\ r.agrees = Num(SumCounts(r, group_ids, "agree-count"))
               /\ r.disagrees = Num(SumCounts(r, group_ids, "disagree-count"))
               /\ r.passes = Num(SumCounts(r, group_ids, "pass-count"))

\* C2: in every output row and for every discovered group, the three counts
\* of the group add up to the number of vote rows of that group that hold a
\* value in the row's comment column.
C2_CountsAddUpToVoters ==
    pc = "done" =>
        \A i \in DOMAIN OutputRows : \A g \in Range(group_ids) :
            LET r == OutputRows[i]
            IN /\ AllCountsDefined(r)
               /\ r.counts[GroupColumn(g, "agree-count")][1]
                    + r.counts[GroupColumn(g, "disagree-count")][1]
                    + r.counts[GroupColumn(g, "pass-count")][1]
                  = Cardinality(GroupedVoters(g, r.cid))

\* The votes file without its rows of a null group-id.
WithoutUngrouped(vf) ==
    [vf EXCEPT !.rows = SelectSeq(@, LAMBDA r : r.gid # RawNull)]

\* C3: a finished run has the exit status and the output of a run on the
\* votes file from which the rows of a null group-id were removed.
C3_UngroupedRowsIgnored ==
    Terminal =>
        [exit_code |-> exit_code, output |-> output]
            = Outcome(WithoutUngrouped(votes_file), comments_file)

C3_Witness ==
    /\ pc = "done"
    /\ OutputRows # <<>>
    /\ \E i \in DOMAIN votes_file.rows :
          /\ votes_file.rows[i].gid = RawNull
          /\ Cast(votes_file.rows[i].cells) > 0

\* C4: in every output row, a discovered group of which nobody voted on the
\* row's comment has the explicit count 0 in its three columns, and the
\* row's totals are numbers.
C4_Densified ==
    pc = "done" =>
        \A i \in DOMAIN OutputRows : \A g \in Range(group_ids) :
            LET r == OutputRows[i]
            IN GroupedVoters(g, r.cid) = {} =>
                  /\ \A k \in Range(Kinds) : r.counts[GroupColumn(g, k)] = Num(0)
                  /\ IsNum(r.agrees) /\ IsNum(r.disagrees) /\ IsNum(r.passes)

ScenarioVotes ==
    OkVotesFile({ScenarioCid},
        <<[gid |-> RawInt(1), cells |-> [c \in {ScenarioCid} |-> Num(1)]],
          [gid |-> RawInt(1), cells |-> [c \in {ScenarioCid} |-> Num(-1)]]>>)

ScenarioCounts ==
    [col \in GroupColumns(<<1>>) |-> IF col[2] = "pass-count" THEN Num(0) ELSE Num(1)]

\* C5: on the two-voter scenario (both of group 1, votes 1 and -1 on
\* comment 101) the run completes and writes exactly one row for the
\* comment, with group-1 counts 1, 1, 0 and totals 1, 1, 0.
C5_Scenario ==
    (votes_file = ScenarioVotes /\ Terminal) =>
        /\ pc = "done"
        /\ \E i \in DOMAIN OutputRows :
              /\ OutputRows[i].cid = ScenarioCid
              /\ OutputRows[i].counts = ScenarioCounts
              /\ OutputRows[i].agrees = Num(1)
              /\ OutputRows[i].disagrees = Num(1)
              /\ OutputRows[i].passes = Num(0)
              /\ \A j \in DOMAIN OutputRows : OutputRows[j].cid = ScenarioCid => j = i

\* C6: every numeric column of the votes table has a widened row, and a
\* column without any grouped vote has a row of zero counts (and an output
\* row when the comments table holds its id).
C6_EveryCommentIdWidened ==
    /\ AfterForMerge =>
          \A j \in DOMAIN comment_ids :
              \E i \in DOMAIN for_merge :
                  /\ for_merge[i].cid = comment_ids[j].n
                  /\ (\A g \in Range(group_ids) : GroupedVoters(g, comment_ids[j].n) = {})
                        => \A col \in DOMAIN for_merge[i].counts :
                              for_merge[i].counts[col] = Num(0)
    /\ pc = "done" =>
          \A j \in DOMAIN comment_ids :
              (\E n \in DOMAIN comments_file.rows :
                    comments_file.rows[n].cid = RawInt(comment_ids[j].n))
                 => \E i \in DOMAIN OutputRows : OutputRows[i].cid = comment_ids[j].n

CommentFileIds == {comments_file.rows[i].cid.n : i \in DOMAIN comments_file.rows}

WidenedIds == {for_merge[i].cid : i \in DOMAIN for_merge}

UniqueCommentIds ==
    \A i, j \in DOMAIN comments_file.rows :
        comments_file.rows[i].cid = comments_file.rows[j].cid => i = j

\* C7: the output holds exactly the comment ids that are in the comments
\* table and in the widened rows, no run fails at or after the merge, an id
\* of both sides has one output row when the comments table's ids are
\* unique, and a kept row keeps its comment's other fields.
C7_InnerJoin ==
    /\ pc = "failed" => for_merge = <<>>
    /\ pc = "done" =>
          /\ {OutputRows[i].cid : i \in DOMAIN OutputRows} = CommentFileIds \cap WidenedIds
          /\ UniqueCommentIds =>
                \A c \in CommentFileIds \cap WidenedIds :
                    Cardinality({i \in DOMAIN OutputRows : OutputRows[i].cid = c}) = 1
          /\ \A i \in DOMAIN OutputRows :
                \E j \in DOMAIN comments_file.rows :
                    /\ comments_file.rows[j].cid = RawInt(OutputRows[i].cid)
                    /\ comments_file.rows[j].comment_body = OutputRows[i].comment_text

C7_Witness ==
    /\ pc = "done"
    /\ OutputRows # <<>>
    /\ CommentFileIds \ WidenedIds # {}
    /\ WidenedIds \ CommentFileIds # {}

InvalidFiles == ReadCsvFails(votes_file) \/ ReadCsvFails(comments_file)

InvalidCommentId == \E i \in DOMAIN comments_file.rows : comments_file.rows[i].cid.kind # "int"

InvalidGroupId == \E i \in DOMAIN votes_file.rows : votes_file.rows[i].gid.kind = "text"

\* C8: the output is written only by a run that passed every stage (exit
\* status 0); a run on a missing, empty or unparseable file does not get
\* past reading, a run on a comment-id or group-id that is no integer does
\* not get past its coercion, and such a run ends with a non-zero exit
\* status and nothing written.
C8_AllOrNothing ==
    /\ output # NaN => pc = "done" /\ exit_code = Num(0)
    /\ pc = "failed" => exit_code = Num(1) /\ output = NaN
    /\ InvalidFiles => pc \in {"read_csv", "failed"}
    /\ InvalidCommentId => pc \in {"read_csv", "cast_comment_ids", "failed"}
    /\ InvalidGroupId => pc \in {"read_csv", "cast_comment_ids", "filter_votes", "failed"}

C8_Witness ==
    /\ pc = "failed"
    /\ exit_code = Num(1)
    /\ output = NaN
    /\ ~InvalidFiles
    /\ ~InvalidCommentId
    /\ InvalidGroupId
    /\ group_ids = <<>>

\* C9: every (comment, group) tally has all three counts defined, 0 for a
\* kind nobody of the group cast on the comment, also when a kind occurs
\* nowhere in the votes; the run then still completes, with the columns of
\* that kind holding 0.
C9_ThreeCountsDefined ==
    /\ AfterCount =>
          \A r \in result.rows : \A v \in {-1, 0, 1} :
              /\ RenameColumn(v) \in DOMAIN r.counts
              /\ r.counts[RenameColumn(v)] = Cardinality(VotersOfKind(r.gid, r.cid, v))
    /\ (Terminal /\ result # <<>> /\ result.rows # {}
          /\ 0 \in {r.gid : r \in result.rows}
          /\ Range(group_ids) = {r.gid : r \in result.rows})
          => pc = "done"

\* C10: every row of for_merge holds, in each group count column, the
\* pivoted tally of the comment id in the row's own comment-id column.
C10_RowAlignment ==
    AfterForMerge =>
        \A i \in DOMAIN for_merge : \A col \in DOMAIN for_merge[i].counts :
            for_merge[i].counts[col] = pivoted.cell[<<col[2], col[1], for_merge[i].cid>>]

====
